---------------------------- MODULE Spec2Model ----------------------------
(***************************************************************************)
(* Multi-item waste classification: ClassifierService.classify_multiple    *)
(* and the services it sequences (text splitter, image detector, exemplar  *)
(* store, label generator, auto-enrichment).                               *)
(*                                                                         *)
(* Conventions of the model                                                *)
(*  - a text is a sequence of tokens; words are separated by one blank,    *)
(*    "," and ";" are tokens glued to the preceding word, and the token    *)
(*    " " stands for white space that is not a separator                   *)
(*  - Python None is "<None>" (NoneText where a text is expected); a key   *)
(*    that a dict does not have is "<MISSING>"                             *)
(*  - confidences, similarities and cosine distances are integers in       *)
(*    hundredths (0.90 is 90)                                              *)
(***************************************************************************)
EXTENDS Integers, Sequences, FiniteSets, TLC

VARIABLES
    settings,                 \* app.config.settings as seen by classifier.py
    store,                    \* rag_service.collection: sequence of exemplars
    pc,                       \* position in classify_multiple
    image_base64,             \* argument of the current call
    text,                     \* argument of the current call
    input_type,               \* local of classify_multiple
    items_in,                 \* item_descriptions / detections
    image_size,               \* local of classify_multiple
    idx,                      \* position of the for loop (next item, 1-based)
    classification_results,   \* local of classify_multiple; each entry carries
                              \* src, the upstream index it came from (0: default)
    itemlog,                  \* history: what happened to each upstream item
    stage,                    \* history: how the split / detect stage went
    response,                 \* the returned MultiClassificationResponse
    endpoint,                 \* POST /api/classify: the request and its HTTP status
    requests                  \* the classify_multiple coroutines of concurrent requests

vars == <<settings, store, pc, image_base64, text, input_type, items_in,
          image_size, idx, classification_results, itemlog, stage,
          response, endpoint, requests>>

\* None / a missing dict key where a string is expected
None == "<None>"
MISSING == "<MISSING>"

\* None / a truthy value that is not a str (a JSON number, say) where a text is expected
NoneText == <<"<None>">>
NumText == <<"<number>">>

(***************************************************************************)
(* Generic helpers.                                                        *)
(***************************************************************************)
Max(a, b) == IF a >= b THEN a ELSE b

Min(a, b) == IF a <= b THEN a ELSE b

\* Python int(): truncation toward zero of num / den (den > 0)
TruncDiv(num, den) == IF num >= 0 THEN num \div den ELSE -((-num) \div den)

(***************************************************************************)
(* Text: str.strip(), truthiness, lower().                                 *)
(***************************************************************************)
WS == " "

RECURSIVE LStrip(_)
LStrip(t) == IF t # <<>> /\ Head(t) = WS THEN LStrip(Tail(t)) ELSE t

RECURSIVE RStrip(_)
RStrip(t) ==
    IF t # <<>> /\ t[Len(t)] = WS THEN RStrip(SubSeq(t, 1, Len(t) - 1)) ELSE t

Strip(t) == RStrip(LStrip(t))

\* "if text": None and "" are falsy, every other value is truthy
Truthy(t) == t # NoneText /\ t # <<>>

IsStr(t) == t # NoneText /\ t # NumText

\* len(s) < 2 for a str: the empty string or one token of one character
OneCharTokens == {"a", "A", "1", "2", "3", ",", ";", " "}

ShorterThan2(t) == t = <<>> \/ (Len(t) = 1 /\ t[1] \in OneCharTokens)

(***************************************************************************)
(* TextSplitterService.                                                    *)
(***************************************************************************)
Articles == {"a", "an", "the", "A", "An", "The"}

Numbers == {"1", "2", "3"}

\* digits immediately followed by st/nd/rd/th
Ordinals == {"1st", "2nd", "3rd", "4th"}

\* tokens that begin with st/nd/rd/th, and what is left of them without it
OrdinalPrefixed == {"the", "things", "straw"}

CutOrdinalPrefix(tok) ==
    CASE tok = "the" -> "e"
      [] tok = "things" -> "ings"
      [] tok = "straw" -> "raw"
      [] OTHER -> tok

\* re.sub(r'^(a|an|the)\s+', '', item, flags=re.IGNORECASE)
RemoveArticle(s) ==
    IF Len(s) >= 2 /\ s[1] \in Articles /\ s[2] \notin {",", ";"}
    THEN LStrip(Tail(s)) ELSE s

\* re.sub(r'^\d+\s*(st|nd|rd|th)?\s*', '', item, flags=re.IGNORECASE)
RemoveNumber(s) ==
    IF s = <<>> THEN s
    ELSE IF s[1] \in Ordinals THEN LStrip(Tail(s))
    ELSE IF s[1] \in Numbers
         THEN IF Len(s) >= 2 /\ s[2] \in OrdinalPrefixed
              THEN <<CutOrdinalPrefix(s[2])>> \o SubSeq(s, 3, Len(s))
              ELSE LStrip(Tail(s))
    ELSE s

_clean_item(item) ==
    IF ~Truthy(item) THEN <<>>
    ELSE Strip(RemoveNumber(RemoveArticle(Strip(item))))

\* re.sub(r'^(i have|there are|items?:\s*)', '', text, flags=re.IGNORECASE)
RemovePrefix(t) ==
    IF Len(t) >= 2 /\ <<t[1], t[2]>> \in {<<"i", "have">>, <<"I", "have">>, <<"there", "are">>}
    THEN <<WS>> \o SubSeq(t, 3, Len(t))
    ELSE IF Len(t) >= 1 /\ t[1] \in {"items:", "item:"} THEN Tail(t)
    ELSE t

\* re.split(r'[,;]|\sand\s', text): "and" separates only with white space on
\* both sides, and the white space one match consumed is not there for the next
RECURSIVE SplitDelims(_, _, _, _)
SplitDelims(t, i, cur, spaceBefore) ==
    IF i > Len(t) THEN <<cur>>
    ELSE IF t[i] \in {",", ";"}
         THEN <<cur>> \o SplitDelims(t, i + 1, <<>>, TRUE)
    ELSE IF t[i] \in {"and", "And", "AND"} /\ i > 1 /\ i < Len(t) /\ spaceBefore
                /\ t[i + 1] \notin {",", ";"}
         THEN <<cur>> \o SplitDelims(t, i + 1, <<>>, FALSE)
    ELSE SplitDelims(t, i + 1, Append(cur, t[i]), TRUE)

RECURSIVE CleanNonEmpty(_)
CleanNonEmpty(pieces) ==
    IF pieces = <<>> THEN <<>>
    ELSE (IF _clean_item(Head(pieces)) # <<>> THEN <<_clean_item(Head(pieces))>> ELSE <<>>)
         \o CleanNonEmpty(Tail(pieces))

_split_simple(t) ==
    LET t1 == RemovePrefix(t)
        cleaned_items == CleanNonEmpty(SplitDelims(t1, 1, <<>>, TRUE))
    IN  IF Len(cleaned_items) <= 1
        THEN (IF Strip(t1) # <<>> THEN <<Strip(t1)>> ELSE <<>>)
        ELSE cleaned_items

\* [self._clean_item(item) for item in items if item and item.strip()];
\* a truthy item that is not a str raises AttributeError
HasNonStr(items) == \E i \in 1..Len(items) : items[i] = NumText

RECURSIVE CleanAll(_)
CleanAll(items) ==
    IF items = <<>> THEN <<>>
    ELSE (IF Truthy(Head(items)) /\ Strip(Head(items)) # <<>>
          THEN <<_clean_item(Head(items))>> ELSE <<>>)
         \o CleanAll(Tail(items))

\* resp: the chat completion as _parse_json_array reads it
\*   kind "error": HTTP error, timeout or malformed body;  "empty": no content
\*   kind "content": parsed = _parse_json_array(content),
\*                   alt = _parse_json_array_alternative(content)
_expand_single_item(item, resp) ==
    IF ~Truthy(item) \/ ShorterThan2(item) THEN [items |-> <<>>, calls |-> 0]
    ELSE IF resp.kind = "content" /\ Len(resp.parsed) > 1 /\ ~HasNonStr(resp.parsed)
         THEN [items |-> CleanAll(resp.parsed), calls |-> 1]
    ELSE [items |-> <<>>, calls |-> 1]

\* cleaned: the number of cleaned phrases the generative answer gave, before
\* any expansion
_split_with_llm(t, resp, expResp) ==
    IF resp.kind # "content" THEN [items |-> <<>>, expandCalls |-> 0, cleaned |-> 0]
    ELSE IF HasNonStr(resp.parsed) THEN [items |-> <<>>, expandCalls |-> 0, cleaned |-> 0]
    ELSE LET cleaned == CleanAll(resp.parsed)
             expanded == _expand_single_item(cleaned[1], expResp)
         IN  IF Len(resp.parsed) > 0 /\ Len(cleaned) > 1
             THEN [items |-> cleaned, expandCalls |-> 0, cleaned |-> Len(cleaned)]
             ELSE IF Len(resp.parsed) > 0 /\ Len(cleaned) = 1
             THEN [items |-> IF Len(expanded.items) > 1 THEN expanded.items ELSE cleaned,
                   expandCalls |-> expanded.calls, cleaned |-> 1]
             ELSE IF Len(resp.alt) > 1
             THEN (IF HasNonStr(resp.alt)
                   THEN [items |-> <<>>, expandCalls |-> 0, cleaned |-> 0]
                   ELSE [items |-> CleanAll(resp.alt), expandCalls |-> 0,
                         cleaned |-> Len(CleanAll(resp.alt))])
             ELSE [items |-> <<>>, expandCalls |-> 0, cleaned |-> 0]

\* result: the phrases, the path that produced them, and the calls issued
split_items(t, resp, expResp1, expResp2) ==
    IF ~Truthy(t) \/ Strip(t) = <<>>
    THEN [items |-> <<>>, path |-> "blank", splitCalls |-> 0, expandCalls |-> 0,
          generated |-> 0]
    ELSE LET llm == _split_with_llm(t, resp, expResp1)
             expanded == _expand_single_item(llm.items[1], expResp2)
         IN  IF Len(llm.items) > 1
             THEN [items |-> llm.items, path |-> "llm", splitCalls |-> 1,
                   expandCalls |-> llm.expandCalls, generated |-> llm.cleaned]
             ELSE IF Len(llm.items) = 1
             THEN [items |-> IF Len(expanded.items) > 1 THEN expanded.items ELSE llm.items,
                   path |-> IF Len(expanded.items) > 1 THEN "expansion" ELSE "llm",
                   splitCalls |-> 1,
                   expandCalls |-> llm.expandCalls + expanded.calls,
                   generated |-> llm.cleaned]
             ELSE [items |-> _split_simple(t), path |-> "simple", splitCalls |-> 1,
                   expandCalls |-> llm.expandCalls, generated |-> llm.cleaned]


(***************************************************************************)
(* Settings (config.py).  classifier.py reads three attributes that the    *)
(* Settings class does not declare; "defined" is the set of those that an  *)
(* installation has set on the object.  Settings is the class as declared. *)
(***************************************************************************)
EnrichAttrs == {"AUTO_ENRICH_ENABLED", "AUTO_ENRICH_CONFIDENCE_THRESHOLD",
                "AUTO_ENRICH_CHECK_DUPLICATES"}

Settings ==
    [defined |-> {}, AUTO_ENRICH_ENABLED |-> FALSE,
     AUTO_ENRICH_CONFIDENCE_THRESHOLD |-> 0, AUTO_ENRICH_CHECK_DUPLICATES |-> FALSE]

RAG_TOP_K == 5

HasAttr(s, name) == name \in s.defined

SettingsSpace ==
    {Settings}
    \cup {[defined |-> {"AUTO_ENRICH_ENABLED"}, AUTO_ENRICH_ENABLED |-> TRUE,
           AUTO_ENRICH_CONFIDENCE_THRESHOLD |-> 0, AUTO_ENRICH_CHECK_DUPLICATES |-> FALSE]}
    \cup [defined : {EnrichAttrs}, AUTO_ENRICH_ENABLED : BOOLEAN,
          AUTO_ENRICH_CONFIDENCE_THRESHOLD : {80}, AUTO_ENRICH_CHECK_DUPLICATES : BOOLEAN]

(***************************************************************************)
(* EmbeddingService and the exemplar store (RAGService over a collection   *)
(* with cosine distance).  The embedding model is an external function of  *)
(* the text: here the sum of the token weights, and the distance of two    *)
(* embeddings their difference, capped at 2.00.                            *)
(***************************************************************************)
TokenWeight(tok) ==
    CASE tok = "Aluminum can" -> 100
      [] tok = "Plastic bottle" -> 400
      [] tok = "-" -> 0
      [] tok = "can" -> 10
      [] tok = "tin" -> 20
      [] tok = "soda" -> 4
      [] tok = "bottle" -> 50
      [] tok = "box" -> 90
      [] OTHER -> 7

RECURSIVE Embed(_)
Embed(t) == IF t = <<>> THEN 0 ELSE TokenWeight(Head(t)) + Embed(Tail(t))

CosineDistance(e1, e2) == Min(200, IF e1 >= e2 THEN e1 - e2 ELSE e2 - e1)

\* generate_text_embedding: "raise" for an empty, blank or non-str text and
\* when the model fails (ok = FALSE)
EmbeddingRaises(t, ok) == ~Truthy(t) \/ ~IsStr(t) \/ Strip(t) = <<>> \/ ~ok

generate_text_embedding(t) == Embed(t)

\* the indices of the n_results stored exemplars nearest to e, nearest first
RECURSIVE NearestIdx(_, _, _, _)
NearestIdx(st, e, n, taken) ==
    LET rest == (1..Len(st)) \ taken
        best == CHOOSE i \in rest : \A j \in rest :
                    \/ CosineDistance(st[i].text_embedding, e) < CosineDistance(st[j].text_embedding, e)
                    \/ /\ CosineDistance(st[i].text_embedding, e) = CosineDistance(st[j].text_embedding, e)
                       /\ i <= j
    IN  IF n = 0 \/ rest = {} THEN <<>>
        ELSE <<best>> \o NearestIdx(st, e, n - 1, taken \cup {best})

collection_query(st, e, n_results) == NearestIdx(st, e, n_results, {})

\* retrieve_similar(text, text_embedding): the similar examples, nearest first
retrieve_similar(st, e) ==
    LET ids == collection_query(st, e, RAG_TOP_K)
    IN  [i \in 1..Len(ids) |-> st[ids[i]]]

\* "<" in place of "<="
DuplicateWithinStrict(distance, distance_threshold) == distance < distance_threshold

\* check_duplicate(text_description, similarity_threshold); the embedding or
\* the query failing is caught and reported as "no duplicate"
DuplicateWithin(distance, distance_threshold) == distance <= distance_threshold

\* a check that reports a duplicate when it cannot tell
check_duplicate_cautious(st, text_description, similarity_threshold, embedOK, queryOK) ==
    IF EmbeddingRaises(text_description, embedOK) \/ ~queryOK THEN TRUE
    ELSE LET text_embedding == generate_text_embedding(text_description)
             ids == collection_query(st, text_embedding, 5)
             distance_threshold == 100 - similarity_threshold
         IN  \E i \in 1..Len(ids) :
                DuplicateWithin(CosineDistance(st[ids[i]].text_embedding, text_embedding),
                                distance_threshold)

check_duplicate(st, text_description, similarity_threshold, embedOK, queryOK) ==
    IF EmbeddingRaises(text_description, embedOK) \/ ~queryOK THEN FALSE
    ELSE LET text_embedding == generate_text_embedding(text_description)
             ids == collection_query(st, text_embedding, 5)
             distance_threshold == 100 - similarity_threshold
         IN  \E i \in 1..Len(ids) :
                DuplicateWithin(CosineDistance(st[ids[i]].text_embedding, text_embedding),
                                distance_threshold)

\* the distances the duplicate check's query returns (history of the check)
ReturnedDistances(st, text_description) ==
    LET e == generate_text_embedding(text_description)
        ids == collection_query(st, e, 5)
    IN  [i \in 1..Len(ids) |-> CosineDistance(st[ids[i]].text_embedding, e)]

\* an add that overwrites the newest exemplar
add_example_overwrite(st, example) ==
    IF st = <<>> THEN <<example>> ELSE [st EXCEPT ![Len(st)] = example]

\* collection.add under a fresh uuid4 id
add_example(st, example) == Append(st, example)

(***************************************************************************)
(* ClassificationResult and str.lower().                                   *)
(***************************************************************************)
Lower(str) ==
    CASE str = "Unknown item" -> "unknown item"
      [] str = "Item in image" -> "item in image"
      [] str = "General waste" -> "general waste"
      [] str = "GENERAL WASTE" -> "general waste"
      [] str = "General" -> "general"
      [] str = "Aluminum can" -> "aluminum can"
      [] str = "Plastic bottle" -> "plastic bottle"
      [] str = "Other" -> "other"
      [] OTHER -> str

NoConfidence == [kind |-> "None", v |-> 0]

NoGeometry == [kind |-> "None", coordinates |-> <<>>]

ClassificationResult(item, category, bin, binColor, explanation, confidence, bbox, mask) ==
    [item |-> item, category |-> category, bin |-> bin, binColor |-> binColor,
     explanation |-> explanation, confidence |-> confidence, bbox |-> bbox, mask |-> mask]

\* pydantic validation of ClassificationResult: the five str fields reject
\* None, confidence is Optional[float]
ValidationFails(r) ==
    \/ None \in {r.item, r.category, r.bin, r.binColor, r.explanation}
    \/ r.confidence.kind = "str"

(***************************************************************************)
(* ClassifierService._auto_enrich_if_qualified(result, description).       *)
(* ext: the outcomes of the external calls it makes.  The value is the     *)
(* way it ended and the store it leaves.                                   *)
(***************************************************************************)
ReservedItems == {"unknown item", "item in image", "general waste"}

EnrichText(result, description) == Strip(<<result.item, "-">> \o description)

\* the exemplar stored with the embedding of the bare description
RAGExampleOfDescription(result, text_description) ==
    [item_name |-> result.item,
     text_description |-> text_description,
     text_embedding |-> generate_text_embedding(Tail(Tail(text_description))),
     category |-> result.category,
     bin_color |-> result.binColor,
     bin_type |-> result.bin,
     rules |-> result.explanation]

RAGExample(result, text_description) ==
    [item_name |-> result.item,
     text_description |-> text_description,
     text_embedding |-> generate_text_embedding(text_description),
     category |-> result.category,
     bin_color |-> result.binColor,
     bin_type |-> result.bin,
     rules |-> result.explanation]

EnrichTry(result, description, s, st, ext) ==
    IF ~HasAttr(s, "AUTO_ENRICH_CHECK_DUPLICATES")
    THEN [outcome |-> "failed", store |-> st]
    ELSE IF /\ s.AUTO_ENRICH_CHECK_DUPLICATES
            /\ check_duplicate(st, EnrichText(result, description), 90,
                               ext.dupEmbedOK, ext.dupQueryOK)
    THEN [outcome |-> "duplicate", store |-> st]
    ELSE IF EmbeddingRaises(EnrichText(result, description), ext.embedOK)
    THEN [outcome |-> "failed", store |-> st]
    ELSE IF ~ext.addOK
    THEN [outcome |-> "failed", store |-> st]
    ELSE [outcome |-> "added",
          store |-> add_example(st, RAGExample(result, EnrichText(result, description)))]

_auto_enrich_if_qualified(result, description, s, st, ext) ==
    IF ~HasAttr(s, "AUTO_ENRICH_ENABLED")
    THEN [outcome |-> "raised", store |-> st]
    ELSE IF ~s.AUTO_ENRICH_ENABLED
    THEN [outcome |-> "disabled", store |-> st]
    ELSE IF result.confidence.kind # "None"
            /\ ~HasAttr(s, "AUTO_ENRICH_CONFIDENCE_THRESHOLD")
    THEN [outcome |-> "raised", store |-> st]
    ELSE IF result.confidence.kind # "None"
            /\ result.confidence.v < s.AUTO_ENRICH_CONFIDENCE_THRESHOLD
    THEN [outcome |-> "low_confidence", store |-> st]
    ELSE IF Lower(result.item) \in ReservedItems
    THEN [outcome |-> "generic_item", store |-> st]
    ELSE IF Lower(result.category) = "general" /\ result.binColor = "other"
    THEN [outcome |-> "generic_category", store |-> st]
    ELSE EnrichTry(result, description, s, st, ext)

\* the outcomes of the calls the enrichment makes, in the order it makes them
\* (a call that follows a failed one is not made, so its outcome is left TRUE)
EnrichExt ==
    {e \in [dupEmbedOK : BOOLEAN, dupQueryOK : BOOLEAN, embedOK : BOOLEAN, addOK : BOOLEAN] :
        /\ (~e.dupEmbedOK => e.dupQueryOK)
        /\ (~e.embedOK => e.addOK)}

AllOK == [dupEmbedOK |-> TRUE, dupQueryOK |-> TRUE, embedOK |-> TRUE, addOK |-> TRUE]


(***************************************************************************)
(* OpenRouterService.classify_item.  resp is the chat completion:          *)
(*   kind "error"    HTTP error or timeout                                 *)
(*   kind "empty"    no content, refusal or reasoning                      *)
(*   kind "nondict"  _parse_classification returns a JSON value that is    *)
(*                   not an object                                         *)
(*   kind "dict"     _parse_classification returns the object d            *)
(*   kind "prose"    content that holds no JSON and none of the five       *)
(*                   fields: _parse_classification returns its defaults    *)
(***************************************************************************)
LabelDict(item, category, bin, binColor, explanation) ==
    [item |-> item, category |-> category, bin |-> bin, binColor |-> binColor,
     explanation |-> explanation]

NoDict == LabelDict(MISSING, MISSING, MISSING, MISSING, MISSING)

LabelResponses ==
    {[kind |-> "error", d |-> NoDict],
     [kind |-> "empty", d |-> NoDict],
     [kind |-> "nondict", d |-> NoDict],
     [kind |-> "prose", d |-> NoDict],
     [kind |-> "dict", d |-> NoDict],
     [kind |-> "dict", d |-> LabelDict("Aluminum can", "metal", "Yellow bin", "yellow", "Rinse the can")],
     [kind |-> "dict", d |-> LabelDict("Plastic bottle", "General", "General waste", "other", "")],
     [kind |-> "dict", d |-> LabelDict("General waste", "plastic", "Brown bin", "brown", None)],
     [kind |-> "dict", d |-> LabelDict("Item in image", "metal", "Yellow bin", "yellow", "Looks like metal")]}

\* value: [raised, isdict, d]
classify_item(image, t, examples, resp) ==
    IF ~image /\ ~Truthy(t) THEN [raised |-> TRUE, isdict |-> FALSE, d |-> NoDict]
    ELSE IF resp.kind = "error" THEN [raised |-> TRUE, isdict |-> FALSE, d |-> NoDict]
    ELSE IF resp.kind = "empty"
    THEN IF Len(examples) > 0
         THEN [raised |-> FALSE, isdict |-> TRUE,
               d |-> LabelDict(examples[1].item_name, examples[1].category,
                               examples[1].bin_type, examples[1].bin_color,
                               "Classification based on similar example")]
         ELSE [raised |-> TRUE, isdict |-> FALSE, d |-> NoDict]
    ELSE IF resp.kind = "nondict" THEN [raised |-> FALSE, isdict |-> FALSE, d |-> NoDict]
    ELSE IF resp.kind = "prose"
    THEN [raised |-> FALSE, isdict |-> TRUE,
          d |-> LabelDict("Unknown item", "general", "General waste", "other",
                          "content[:200]")]
    ELSE [raised |-> FALSE, isdict |-> TRUE, d |-> resp.d]

\* dict.get(key, default)
Get(value, default) == IF value = MISSING THEN default ELSE value

BuildResult(d, confidence, bbox, mask) ==
    ClassificationResult(Get(d.item, "Unknown item"),
                         Get(d.category, "general"),
                         Get(d.bin, "General waste"),
                         Get(d.binColor, "other"),
                         Get(d.explanation, "Classification completed."),
                         confidence, bbox, mask)

\* the default with the explanation of a classified item
DefaultClassificationCompleted ==
    ClassificationResult("Unknown item", "general", "General waste", "other",
                         "Classification completed.", NoConfidence, NoGeometry, NoGeometry)

DefaultClassification ==
    ClassificationResult("Unknown item", "general", "General waste", "other",
                         "No items could be classified.", NoConfidence, NoGeometry, NoGeometry)

(***************************************************************************)
(* ImageDetectorService: detections and their normalization.               *)
(* A JSON value v with kind k:  "MISSING" (no such key), "None", "list",   *)
(* "str", "num".                                                           *)
(***************************************************************************)
MissingText == <<"<MISSING>">>

ItemInImage == <<"item", "in", "image">>

Detection(description, bbox_kind, bbox, mask_kind, mask, conf_kind, confidence) ==
    [description |-> description, bbox_kind |-> bbox_kind, bbox |-> bbox,
     mask_kind |-> mask_kind, mask |-> mask,
     conf_kind |-> conf_kind, confidence |-> confidence]

\* [{"description": "item in image", "bbox": None, "mask": None, "confidence": 0.5}]
GenericDetection == Detection(ItemInImage, "None", <<>>, "None", <<>>, "num", 50)

\* a bbox component that is not a finite number (JSON NaN): int() of it raises
NaN == -1000000

Finite(bbox) == \A k \in 1..Len(bbox) : bbox[k] # NaN

\* an entry of the parsed array that is not an object (a string, a number)
NotADict == Detection(<<"<not a dict>">>, "MISSING", <<>>, "MISSING", <<>>, "MISSING", 0)

\* truthiness of a bbox or mask value: None and [] are falsy; kind "num" is a
\* number other than 0
GeomTruthy(kind, v) == kind \in {"str", "num"} \/ (kind = "list" /\ v # <<>>)

\* the coordinates of a mask that are lists of at least 2 components
MaskPairs(mask) == SelectSeq(mask, LAMBDA coord : Len(coord) >= 2)

RECURSIVE SeqMin(_)
SeqMin(xs) == IF Len(xs) = 1 THEN xs[1] ELSE Min(xs[1], SeqMin(Tail(xs)))

RECURSIVE SeqMax(_)
SeqMax(xs) == IF Len(xs) = 1 THEN xs[1] ELSE Max(xs[1], SeqMax(Tail(xs)))

\* the corners [minX, minY, maxX, maxY] in place of [x, y, width, height]
BBoxFromMaskCorners(mask) ==
    LET pairs == MaskPairs(mask)
        xs == [i \in 1..Len(pairs) |-> pairs[i][1]]
        ys == [i \in 1..Len(pairs) |-> pairs[i][2]]
    IN  <<SeqMin(xs), SeqMin(ys), SeqMax(xs), SeqMax(ys)>>

BBoxFromMask(mask) ==
    LET pairs == MaskPairs(mask)
        xs == [i \in 1..Len(pairs) |-> pairs[i][1]]
        ys == [i \in 1..Len(pairs) |-> pairs[i][2]]
    IN  <<SeqMin(xs), SeqMin(ys), SeqMax(xs) - SeqMin(xs), SeqMax(ys) - SeqMin(ys)>>

NormalizeOne(raw) ==
    LET description == IF raw.description = MissingText THEN ItemInImage ELSE raw.description
        bbox0_kind == IF raw.bbox_kind = "MISSING" THEN "None" ELSE raw.bbox_kind
        mask0_kind == IF raw.mask_kind = "MISSING" THEN "None" ELSE raw.mask_kind
        conf_kind == IF raw.conf_kind = "MISSING" THEN "num" ELSE raw.conf_kind
        confidence == IF raw.conf_kind = "MISSING" THEN 50 ELSE raw.confidence
        fromMask == /\ GeomTruthy(mask0_kind, raw.mask)
                    /\ ~GeomTruthy(bbox0_kind, raw.bbox)
                    /\ mask0_kind = "list"
                    /\ MaskPairs(raw.mask) # <<>>
        bbox1_kind == IF fromMask THEN "list" ELSE bbox0_kind
        bbox1 == IF fromMask THEN BBoxFromMask(raw.mask) ELSE raw.bbox
        bboxBad == GeomTruthy(bbox1_kind, bbox1) /\ (bbox1_kind # "list" \/ Len(bbox1) # 4)
        maskBad == GeomTruthy(mask0_kind, raw.mask) /\ mask0_kind # "list"
    IN  Detection(description,
                  IF bboxBad THEN "None" ELSE bbox1_kind,
                  IF bboxBad THEN <<>> ELSE bbox1,
                  IF maskBad THEN "None" ELSE mask0_kind,
                  IF maskBad THEN <<>> ELSE raw.mask,
                  conf_kind, confidence)

_normalize_detections(detections) == [i \in 1..Len(detections) |-> NormalizeOne(detections[i])]

\* the exceptions _normalize_detections lets through: detection.get of an
\* entry that is not an object (line 210), len() of a mask that is a number
\* (line 219, before the try)
NormalizeOneRaises(raw) ==
    \/ raw = NotADict
    \/ /\ raw.mask_kind = "num"
       /\ ~GeomTruthy(IF raw.bbox_kind = "MISSING" THEN "None" ELSE raw.bbox_kind, raw.bbox)

NormalizeRaises(detections) == \E i \in 1..Len(detections) : NormalizeOneRaises(detections[i])

\* lines: the descriptions the line heuristic reads off the content
_extract_descriptions_fallback(lines) ==
    IF lines # <<>> THEN lines ELSE <<GenericDetection>>

\* resp is the chat completion of the vision model:
\*   kind "error"     HTTP error or timeout
\*   kind "empty"     no content
\*   kind "array"     the first bracketed substring of the content, or after
\*                    it the whole content, is the JSON array raw
\*   kind "lines"     neither is a JSON array
\*   lines            what the lines of the content hold, whatever the kind
_parse_detections(resp) ==
    IF resp.kind = "array" THEN _normalize_detections(resp.raw)
    ELSE _extract_descriptions_fallback(resp.lines)

\* an exception of _parse_detections is caught and gives no detection
_detect_with_vision_model(resp) ==
    IF resp.kind \in {"error", "empty"} THEN <<>>
    ELSE IF resp.kind = "array" /\ NormalizeRaises(resp.raw) THEN <<>>
    ELSE _parse_detections(resp)

\* the fallback added to what the vision model returned, empty list included
detect_objects_extend(image, resp) ==
    IF ~image THEN <<>>
    ELSE IF _detect_with_vision_model(resp) # <<>> THEN _detect_with_vision_model(resp)
    ELSE <<GenericDetection, GenericDetection>>

detect_objects(image, resp) ==
    IF ~image THEN <<>>
    ELSE IF _detect_with_vision_model(resp) # <<>> THEN _detect_with_vision_model(resp)
    ELSE <<GenericDetection>>

RawFull == Detection(<<"soda", "can">>, "list", <<25, 25, 50, 50>>, "MISSING", <<>>, "num", 99)

RawMasked ==
    Detection(<<"bottle">>, "MISSING", <<>>, "list",
              <<<<10, 10>>, <<90, 10>>, <<90, 90>>, <<10, 90>>>>, "num", 30)

RawBare == Detection(MissingText, "None", <<>>, "None", <<>>, "MISSING", 0)

RawOdd == Detection(NoneText, "list", <<1, 2, 3>>, "str", <<>>, "str", 0)

RawOff == Detection(<<"box">>, "list", <<90, -5, 50, 0>>, "list", <<<<5>>, <<1, 2>>>>, "None", 0)

RawBadBox ==
    Detection(<<"tin">>, "list", <<1, 2, 3>>, "list",
              <<<<10, 10>>, <<90, 10>>, <<90, 90>>, <<10, 90>>>>, "num", 90)

RawNumMask == Detection(<<"can">>, "None", <<>>, "num", <<>>, "num", 90)

RawEdge == Detection(<<"box">>, "list", <<100, 0, 50, 50>>, "None", <<>>, "num", 90)

RawNaN == Detection(<<"tin">>, "list", <<NaN, 0, 50, 50>>, "None", <<>>, "num", 90)

LineDetection(description, confidence) ==
    Detection(description, "None", <<>>, "None", <<>>, "num", confidence)

DetectorResponses ==
    {[kind |-> "error", raw |-> <<>>, lines |-> <<>>],
     [kind |-> "empty", raw |-> <<>>, lines |-> <<>>],
     [kind |-> "array", raw |-> <<>>, lines |-> <<>>],
     [kind |-> "array", raw |-> <<RawFull, RawMasked>>, lines |-> <<>>],
     [kind |-> "array", raw |-> <<RawOdd, RawFull>>, lines |-> <<>>],
     [kind |-> "array", raw |-> <<RawBare, RawOff>>, lines |-> <<>>],
     [kind |-> "array", raw |-> <<RawBadBox>>, lines |-> <<>>],
     [kind |-> "array", raw |-> <<RawEdge>>, lines |-> <<>>],
     [kind |-> "array", raw |-> <<RawNaN>>, lines |-> <<>>],
     [kind |-> "array", raw |-> <<RawNumMask>>, lines |-> <<>>],
     [kind |-> "array", raw |-> <<RawFull, NotADict>>, lines |-> <<>>],
     [kind |-> "lines", raw |-> <<>>, lines |-> <<>>],
     [kind |-> "array", raw |-> <<>>, lines |-> <<LineDetection(<<"tin">>, 70)>>],
     [kind |-> "lines", raw |-> <<>>,
      lines |-> <<LineDetection(<<"tin">>, 70), LineDetection(<<"can">>, 60)>>]}

(***************************************************************************)
(* ImageDetectorService.crop_image and get_image_size.  An image is        *)
(* [present, decodable, w, h]; a crop is the pixel rectangle cut out.      *)
(***************************************************************************)
NoImage == [present |-> FALSE, decodable |-> FALSE, w |-> 0, h |-> 0]

NoCrop == [ok |-> FALSE, x |-> 0, y |-> 0, width |-> 0, height |-> 0, masked |-> FALSE]

get_image_size(image) == IF image.decodable THEN <<image.w, image.h>> ELSE <<800, 600>>

\* a failure of the mask step ends the crop
crop_image_strict(image, bbox, mask_kind, mask, rasterOK, encodeOK) ==
    IF bbox = <<>> \/ Len(bbox) # 4 THEN NoCrop
    ELSE IF ~image.decodable \/ ~Finite(bbox) THEN NoCrop
    ELSE LET x0 == TruncDiv(bbox[1] * image.w, 100)
             y0 == TruncDiv(bbox[2] * image.h, 100)
             width0 == TruncDiv(bbox[3] * image.w, 100)
             height0 == TruncDiv(bbox[4] * image.h, 100)
             x == Max(0, Min(x0, image.w))
             y == Max(0, Min(y0, image.h))
             width == Max(1, Min(width0, image.w - x))
             height == Max(1, Min(height0, image.h - y))
             attempted == GeomTruthy(mask_kind, mask) /\ Len(MaskPairs(mask)) >= 3
         IN  IF ~encodeOK \/ (attempted /\ ~rasterOK) THEN NoCrop
             ELSE [ok |-> TRUE, x |-> x, y |-> y, width |-> width, height |-> height,
                   masked |-> attempted]

\* rasterOK: drawing and compositing the mask succeed;  encodeOK: crop and save succeed
crop_image(image, bbox, mask_kind, mask, rasterOK, encodeOK) ==
    IF bbox = <<>> \/ Len(bbox) # 4 THEN NoCrop
    ELSE IF ~image.decodable \/ ~Finite(bbox) THEN NoCrop
    ELSE LET x0 == TruncDiv(bbox[1] * image.w, 100)
             y0 == TruncDiv(bbox[2] * image.h, 100)
             width0 == TruncDiv(bbox[3] * image.w, 100)
             height0 == TruncDiv(bbox[4] * image.h, 100)
             x == Max(0, Min(x0, image.w))
             y == Max(0, Min(y0, image.h))
             width == Max(1, Min(width0, image.w - x))
             height == Max(1, Min(height0, image.h - y))
             masked == /\ GeomTruthy(mask_kind, mask)
                       /\ Len(MaskPairs(mask)) >= 3
                       /\ rasterOK
         IN  IF ~encodeOK THEN NoCrop
             ELSE [ok |-> TRUE, x |-> x, y |-> y, width |-> width, height |-> height,
                   masked |-> masked]


(***************************************************************************)
(* ClassifierService.classify_multiple.                                    *)
(***************************************************************************)
Texts ==
    {<<"a", "can", "and", "a", "bottle">>,
     <<"can">>,
     <<"i", "have", "a", "can", ",", "1st">>,
     <<"i", "have">>,
     <<WS>>}

\* the texts posted to the endpoint
RequestTexts ==
    {<<"can">>,
     <<WS, "a", "can", "and", "a", "bottle", WS>>,
     <<"i", "have">>,
     <<"a", "human", "body">>,
     <<WS>>}

Images ==
    {[present |-> TRUE, decodable |-> TRUE, w |-> 400, h |-> 200],
     [present |-> TRUE, decodable |-> FALSE, w |-> 0, h |-> 0]}

SplitContent(parsed, alt) == [kind |-> "content", parsed |-> parsed, alt |-> alt]

SplitResponses ==
    {[kind |-> "error", parsed |-> <<>>, alt |-> <<>>],
     SplitContent(<<>>, <<>>),
     SplitContent(<<<<"a", "can">>, <<"the", "bottle">>>>, <<>>),
     SplitContent(<<<<"can">>, <<"can">>>>, <<>>),
     SplitContent(<<<<"the", "can">>>>, <<>>),
     SplitContent(<<<<"1st">>, <<"a", "box">>>>, <<>>),
     SplitContent(<<NumText, <<"can">>>>, <<>>),
     SplitContent(<<>>, <<<<"can">>, <<"2", "things">>>>)}

SeedExample ==
    [item_name |-> "Aluminum can",
     text_description |-> <<"Aluminum can", "-", "tin">>,
     text_embedding |-> generate_text_embedding(<<"Aluminum can", "-", "tin">>),
     category |-> "metal", bin_color |-> "yellow", bin_type |-> "Yellow bin",
     rules |-> "Rinse the can"]

InitialStores == {<<>>, <<SeedExample>>}

\* a narrower except clause: only the embedding's ValueError is caught
PerItemExceptValueError(exc) == IF exc = "embedding" THEN "continue" ELSE "propagate"

\* "except Exception" around one item: every exception is caught
PerItemExcept(exc) == "continue"

\* "break" in place of "continue": a failure ends the loop
NextIndexBreak(i, failed, n) == IF failed THEN n + 1 ELSE i + 1

\* "continue": the loop goes on with the next item, also after a failure
NextIndex(i, failed, n) == i + 1

\* insert at the front in place of append
ResultsAfterItemFront(results, entry, enrichOutcome) == <<entry>> \o results

\* enrich, then append: an enrichment that raises loses the result
ResultsAfterItemEnrichFirst(results, entry, enrichOutcome) ==
    IF enrichOutcome = "raised" THEN results ELSE Append(results, entry)

\* append, then enrich: the result is in the list whatever the enrichment does
ResultsAfterItem(results, entry, enrichOutcome) == Append(results, entry)

\* no default result
DefaultIfEmptyNever(results) == results

\* "if not classification_results": the default result
DefaultIfEmpty(results) ==
    IF results = <<>> THEN <<[result |-> DefaultClassification, src |-> 0]>> ELSE results

NotCalled(st) == [outcome |-> "not_called", store |-> st]

\* one pass of the loop body: the step that failed ("none" if none did), the
\* result built, and what the enrichment did
\* image: what is handed to the label generator as image_base64, "None", the
\* "crop" or the "original" image
ItemPass(image, description, labelText, confidence, bbox, mask, s, st, embedOK, queryOK, labelResp, ext) ==
    LET examples == retrieve_similar(st, generate_text_embedding(description))
        label == classify_item(image # "None", labelText, examples, labelResp)
        result == BuildResult(label.d, confidence, bbox, mask)
        failed == IF EmbeddingRaises(description, embedOK) THEN "embedding"
                  ELSE IF ~queryOK THEN "query"
                  ELSE IF label.raised THEN "label"
                  ELSE IF ~label.isdict \/ ValidationFails(result) THEN "construction"
                  ELSE "none"
    IN  [failed |-> failed,
         result |-> result,
         label |-> IF failed \in {"embedding", "query"} THEN "not_called" ELSE labelResp.kind,
         examples |-> IF failed \in {"embedding", "query"} THEN 0 ELSE Len(examples),
         labelImage |-> image,
         labelText |-> labelText,
         enrich |-> IF failed = "none"
                    THEN _auto_enrich_if_qualified(result, description, s, st, ext)
                    ELSE NotCalled(st)]

\* history of one pass: queried tells whether the duplicate check's query
\* returned, distances what it returned, checkFailed whether the check was
\* made and its embedding or query failed, addFailed whether the embedding
\* or the add that follow the check failed
LogEntry(pass, description, s, st, results, ext, crop, steps) ==
    LET queried == /\ pass.enrich.outcome \in {"duplicate", "failed", "added"}
                   /\ HasAttr(s, "AUTO_ENRICH_CHECK_DUPLICATES")
                   /\ s.AUTO_ENRICH_CHECK_DUPLICATES
                   /\ ext.dupEmbedOK /\ ext.dupQueryOK
    IN  [failed |-> pass.failed,
         result |-> IF pass.failed = "none" THEN pass.result ELSE DefaultClassification,
         pos |-> IF pass.failed = "none" THEN Len(results) + 1 ELSE 0,
         enrich |-> pass.enrich.outcome,
         added |-> pass.enrich.store # st,
         description |-> description,
         queried |-> queried,
         distances |-> IF queried
                       THEN ReturnedDistances(st, EnrichText(pass.result, description))
                       ELSE <<>>,
         crop |-> crop,
         steps |-> steps,
         label |-> pass.label,
         examples |-> pass.examples,
         labelImage |-> pass.labelImage,
         labelText |-> pass.labelText,
         checkFailed |-> /\ pass.enrich.outcome \in {"duplicate", "failed", "added"}
                         /\ HasAttr(s, "AUTO_ENRICH_CHECK_DUPLICATES")
                         /\ s.AUTO_ENRICH_CHECK_DUPLICATES
                         /\ ~ext.dupEmbedOK \/ ~ext.dupQueryOK,
         addFailed |-> pass.enrich.outcome = "failed" /\ (~ext.embedOK \/ ~ext.addOK)]

Exception(pass) ==
    IF pass.failed # "none" THEN pass.failed
    ELSE IF pass.enrich.outcome = "raised" THEN "enrichment" ELSE "none"

AfterItem(pass, entry) ==
    /\ classification_results' =
          IF pass.failed = "none"
          THEN ResultsAfterItem(classification_results,
                                [result |-> pass.result, src |-> idx], pass.enrich.outcome)
          ELSE classification_results
    /\ store' = pass.enrich.store
    /\ itemlog' = Append(itemlog, entry)
    /\ IF Exception(pass) # "none" /\ PerItemExcept(Exception(pass)) # "continue"
       THEN pc' = "raised" /\ idx' = idx
       ELSE pc' = "loop" /\ idx' = NextIndex(idx, Exception(pass) # "none", Len(items_in))

NoStage == [kind |-> "none", failed |-> FALSE, path |-> "none",
            splitCalls |-> 0, expandCalls |-> 0, returned |-> 0,
            raw |-> <<>>, raised |-> FALSE, generated |-> 0, lines |-> <<>>]

NoResponse == [items |-> <<>>, total_items |-> 0, input_type |-> "none"]

\* two requests served by one event loop
Requests == {1, 2}

\* a coroutine of classify_multiple that was not started
IdleRequest ==
    [pc |-> "idle", text |-> NoneText, items |-> <<>>, idx |-> 1, seen |-> <<>>,
     results |-> <<>>, adds |-> <<>>]

\* no request to the endpoint
NoRequest == [status |-> "none", has_image |-> FALSE, has_text |-> FALSE, valid |-> FALSE]

Init ==
    /\ settings \in SettingsSpace
    /\ store \in InitialStores
    /\ pc = "idle"
    /\ image_base64 = NoImage
    /\ text = NoneText
    /\ input_type = "none"
    /\ items_in = <<>>
    /\ image_size = <<0, 0>>
    /\ idx = 1
    /\ classification_results = <<>>
    /\ itemlog = <<>>
    /\ stage = NoStage
    /\ response = NoResponse
    /\ endpoint = NoRequest
    /\ requests = [r \in Requests |-> IdleRequest]

\* lines 82-88: entry, argument check, input_type
Enter(img, txt) ==
    /\ pc = "idle"
    /\ image_base64' = img
    /\ text' = txt
    /\ items_in' = <<>>
    /\ image_size' = <<0, 0>>
    /\ idx' = 1
    /\ classification_results' = <<>>
    /\ itemlog' = <<>>
    /\ stage' = NoStage
    /\ response' = NoResponse
    /\ IF (~img.present /\ ~Truthy(txt)) \/ (img.present /\ Truthy(txt))
       THEN pc' = "raised" /\ input_type' = "none"
       ELSE /\ input_type' = IF img.present THEN "image" ELSE "text"
            /\ pc' = IF Truthy(txt) THEN "split" ELSE "detect"
    /\ UNCHANGED <<settings, store, requests>>

\* classify_multiple called by a caller other than the endpoint
Call(img, txt) == Enter(img, txt) /\ UNCHANGED endpoint

(***************************************************************************)
(* POST /api/classify (routers/classify.py), the request model's validator *)
(* and ContentFilterService.  filterImageOK: the image is valid base64 of  *)
(* at least 100 bytes.                                                     *)
(***************************************************************************)
InappropriateWords == {"human", "body", "gun"}

WasteKeywords == {"can", "bottle"}

StrongBlocked(t) ==
    \E i \in 1..(Len(t) - 1) : t[i] = "human" /\ t[i + 1] = "body"

_is_waste_related(t) ==
    IF StrongBlocked(t) THEN FALSE
    ELSE \E i \in 1..Len(t) : t[i] \in WasteKeywords

_validate_text(t) ==
    IF ~Truthy(t) \/ Strip(t) = <<>> THEN FALSE
    ELSE IF (\E i \in 1..Len(t) : t[i] \in InappropriateWords) /\ ~_is_waste_related(t)
    THEN FALSE
    ELSE _is_waste_related(t)

validate_input(t, image, filterImageOK) ==
    /\ Truthy(t) => _validate_text(t)
    /\ image.present => filterImageOK

\* ' '.join(text.split()): runs of white space collapse, the ends are trimmed
sanitize_text(t) == SelectSeq(t, LAMBDA tok : tok # WS)

HasText(t) == t # NoneText /\ Strip(t) # <<>>

\* ClassificationRequest.validate_input raises: the request is answered 422
\* before the route function runs
RequestInvalid(img, txt) ==
    (~img.present /\ ~HasText(txt)) \/ (img.present /\ HasText(txt))

Rejected(status, img, txt, valid) ==
    /\ pc = "idle"
    /\ pc' = "rejected"
    /\ endpoint' = [status |-> status, has_image |-> img.present,
                    has_text |-> HasText(txt), valid |-> valid]
    /\ UNCHANGED <<settings, store, image_base64, text, input_type, items_in,
                   image_size, idx, classification_results, itemlog, stage, response,
                   requests>>

api_classify(img, txt, filterImageOK) ==
    LET has_image == img.present
        has_text == HasText(txt)
        is_valid == validate_input(IF has_text THEN txt ELSE NoneText,
                                   IF has_image THEN img ELSE NoImage, filterImageOK)
    IN  IF RequestInvalid(img, txt) THEN Rejected("422", img, txt, FALSE)
        ELSE IF ~is_valid THEN Rejected("400", img, txt, FALSE)
        ELSE /\ Enter(IF has_image THEN img ELSE NoImage,
                      IF has_text THEN sanitize_text(txt) ELSE NoneText)
             /\ endpoint' = [status |-> "pending", has_image |-> has_image,
                             has_text |-> has_text, valid |-> TRUE]

\* lines 90-96: the splitter and its "single item" fallback
SplitStage ==
    /\ pc = "split"
    /\ \E resp \in SplitResponses, expResp1 \in SplitResponses, expResp2 \in SplitResponses :
          LET item_descriptions == split_items(text, resp, expResp1, expResp2)
          IN  /\ items_in' = IF item_descriptions.items = <<>> THEN <<text>>
                             ELSE item_descriptions.items
              /\ stage' = [kind |-> "split",
                           failed |-> item_descriptions.path \in {"simple", "blank"},
                           path |-> item_descriptions.path,
                           splitCalls |-> item_descriptions.splitCalls,
                           expandCalls |-> item_descriptions.expandCalls,
                           returned |-> Len(item_descriptions.items),
                           raw |-> <<>>, raised |-> FALSE,
                           generated |-> item_descriptions.generated,
                           lines |-> <<>>]
    /\ pc' = "loop"
    /\ idx' = 1
    /\ UNCHANGED <<settings, store, image_base64, text, input_type, image_size,
                   classification_results, itemlog, response, endpoint, requests>>

\* lines 135-144: the detector, its "single item" fallback, the image size
DetectStage ==
    /\ pc = "detect"
    /\ \E resp \in DetectorResponses :
          LET detections == detect_objects(image_base64.present, resp)
          IN  /\ items_in' = IF detections = <<>> THEN <<GenericDetection>> ELSE detections
              /\ stage' = [kind |-> "detect",
                           failed |-> _detect_with_vision_model(resp) = <<>>,
                           path |-> resp.kind,
                           splitCalls |-> 0, expandCalls |-> 0,
                           returned |-> Len(detections),
                           raw |-> IF resp.kind = "array" THEN resp.raw ELSE <<>>,
                           raised |-> resp.kind = "array" /\ NormalizeRaises(resp.raw),
                           generated |-> 0, lines |-> resp.lines]
    /\ image_size' = get_image_size(image_base64)
    /\ pc' = "loop"
    /\ idx' = 1
    /\ UNCHANGED <<settings, store, image_base64, text, input_type,
                   classification_results, itemlog, response, endpoint, requests>>

\* the outcomes of the embedding, the store query and the label generator
\* for one item (a call that follows a failed one is not made)
ItemExt ==
    {[embedOK |-> FALSE, queryOK |-> TRUE, labelResp |-> [kind |-> "error", d |-> NoDict]],
     [embedOK |-> TRUE, queryOK |-> FALSE, labelResp |-> [kind |-> "error", d |-> NoDict]]}
    \cup [embedOK : {TRUE}, queryOK : {TRUE}, labelResp : LabelResponses]

\* the outcomes of decoding-independent steps of crop_image: encoding the
\* crop, and before it rasterizing the mask
CropExt == [rasterOK : BOOLEAN, encodeOK : BOOLEAN]

\* what crop_image went through: whether the mask step was entered and how
\* it ended, and whether cropping and encoding succeeded
CropSteps(detection, c) ==
    [raster |-> IF GeomTruthy(detection.mask_kind, detection.mask)
                   /\ Len(MaskPairs(detection.mask)) >= 3
                THEN (IF c.rasterOK THEN "ok" ELSE "failed") ELSE "none",
     encodeOK |-> c.encodeOK]

NoCropSteps == [raster |-> "none", encodeOK |-> TRUE]

\* crop_image is called and gets past decoding the image and converting the
\* coordinates
CropDecodes(image, detection) ==
    /\ GeomTruthy(detection.bbox_kind, detection.bbox)
    /\ Len(detection.bbox) = 4
    /\ image.decodable
    /\ Finite(detection.bbox)

\* the enrichment gets as far as its calls to the store
ReachesStore(pass) == pass.enrich.outcome \in {"duplicate", "failed", "added"}

\* lines 99-133: one phrase
ClassifyPhrase ==
    /\ pc = "loop"
    /\ input_type = "text"
    /\ idx <= Len(items_in)
    /\ \E x \in ItemExt :
          LET item_text == items_in[idx]
              Pass(ext) == ItemPass("None", item_text, item_text, NoConfidence, NoGeometry,
                                    NoGeometry, settings, store, x.embedOK, x.queryOK,
                                    x.labelResp, ext)
              Log(ext) == LogEntry(Pass(ext), item_text, settings, store,
                                   classification_results, ext, NoCrop, NoCropSteps)
          IN  IF ReachesStore(Pass(AllOK))
              THEN \E ext \in EnrichExt : AfterItem(Pass(ext), Log(ext))
              ELSE AfterItem(Pass(AllOK), Log(AllOK))
    /\ UNCHANGED <<settings, image_base64, text, input_type, items_in, image_size,
                   stage, response, endpoint, requests>>

\* line 160: the crop if there is one, otherwise the original image
image_to_classify(cropped_image) == IF cropped_image.ok THEN "crop" ELSE "original"

\* the description goes with the original image only
LabelTextAlways(cropped_image, description) == description

\* line 175: text=description if not cropped_image else None
LabelText(cropped_image, description) ==
    IF cropped_image.ok THEN NoneText ELSE description

\* lines 147-197: one detection
ClassifyDetection ==
    /\ pc = "loop"
    /\ input_type = "image"
    /\ idx <= Len(items_in)
    /\ \E x \in ItemExt,
          c \in IF CropDecodes(image_base64, items_in[idx])
                THEN CropExt ELSE {[rasterOK |-> TRUE, encodeOK |-> TRUE]} :
          LET detection == items_in[idx]
              reached == CropDecodes(image_base64, detection)
              hasBBox == GeomTruthy(detection.bbox_kind, detection.bbox)
              hasMask == GeomTruthy(detection.mask_kind, detection.mask)
              cropped_image == IF hasBBox
                               THEN crop_image(image_base64, detection.bbox,
                                               detection.mask_kind, detection.mask,
                                               c.rasterOK, c.encodeOK)
                               ELSE NoCrop
              description == detection.description
              Pass(ext) ==
                  ItemPass(image_to_classify(cropped_image), description,
                           LabelText(cropped_image, description),
                           [kind |-> detection.conf_kind, v |-> detection.confidence],
                           IF hasBBox THEN [kind |-> "dict", coordinates |-> detection.bbox]
                           ELSE NoGeometry,
                           IF hasMask THEN [kind |-> "dict", coordinates |-> detection.mask]
                           ELSE NoGeometry,
                           settings, store, x.embedOK, x.queryOK, x.labelResp, ext)
              Log(ext) == LogEntry(Pass(ext), description, settings, store,
                                   classification_results, ext, cropped_image,
                                   IF reached THEN CropSteps(detection, c) ELSE NoCropSteps)
          IN  IF ReachesStore(Pass(AllOK))
              THEN \E ext \in EnrichExt : AfterItem(Pass(ext), Log(ext))
              ELSE AfterItem(Pass(AllOK), Log(AllOK))
    /\ UNCHANGED <<settings, image_base64, text, input_type, items_in, image_size,
                   stage, response, endpoint, requests>>

\* lines 199-215: the default result and the response
Finish ==
    /\ pc = "loop"
    /\ idx > Len(items_in)
    /\ classification_results' = DefaultIfEmpty(classification_results)
    /\ response' = [items |-> DefaultIfEmpty(classification_results),
                    total_items |-> Len(DefaultIfEmpty(classification_results)),
                    input_type |-> input_type]
    /\ pc' = "done"
    /\ endpoint' = IF endpoint.status = "pending"
                   THEN [endpoint EXCEPT !.status = "200"] ELSE endpoint
    /\ UNCHANGED <<settings, store, image_base64, text, input_type, items_in,
                   image_size, idx, itemlog, stage, requests>>

Next ==
    \/ \E img \in Images \cup {NoImage}, txt \in Texts \cup {NoneText, <<>>} : Call(img, txt)
    \/ \E img \in Images \cup {NoImage}, txt \in RequestTexts \cup {NoneText},
          filterImageOK \in BOOLEAN : api_classify(img, txt, filterImageOK)
    \/ SplitStage
    \/ DetectStage
    \/ ClassifyPhrase
    \/ ClassifyDetection
    \/ Finish

Spec == Init /\ [][Next]_vars

(***************************************************************************)
(* Two classify_multiple coroutines on one event loop, text path.  A       *)
(* coroutine gives up control only at an await: of split_items (line 92)   *)
(* and of classify_item (line 111); what it runs between two awaits is one *)
(* step.  A request is [pc, text, items, idx, seen, results, adds]:        *)
(*   seen   the store as retrieve_similar read it for items[idx]           *)
(*   adds   history: the exemplars this request added, each with checked,  *)
(*          whether a duplicate check was made and its calls succeeded     *)
(***************************************************************************)
ConcTexts == {<<"can">>, <<"bottle">>}

ConcLabelResponses ==
    {[kind |-> "error", d |-> NoDict],
     [kind |-> "dict", d |-> LabelDict("Aluminum can", "metal", "Yellow bin", "yellow", "Rinse the can")],
     [kind |-> "dict", d |-> LabelDict("Plastic bottle", "General", "General waste", "other", "")]}

ConcSplitResponses ==
    {[kind |-> "error", parsed |-> <<>>, alt |-> <<>>],
     SplitContent(<<<<"a", "can">>, <<"the", "bottle">>>>, <<>>),
     SplitContent(<<<<"the", "can">>>>, <<>>)}

\* the run from the top of the loop at item from to the next await: every
\* item before k fails at its embedding or query, item k gets to the label
\* call (k past the end: the loop ends and the response is built)
ConcAdvance(req, from, k, st) ==
    [req EXCEPT !.idx = k,
                !.pc = IF k > Len(req.items) THEN "done" ELSE "label",
                !.seen = IF k > Len(req.items) THEN req.seen ELSE st,
                !.results = IF k > Len(req.items) /\ req.results = <<>>
                            THEN <<DefaultClassification>> ELSE req.results]

CanAdvance(req, from, k) ==
    /\ k \in from..(Len(req.items) + 1)
    /\ k <= Len(req.items) => ~EmbeddingRaises(req.items[k], TRUE)

\* lines 82-92: entry with a text, up to the await of split_items
ConcCall(r) ==
    /\ requests[r].pc = "idle"
    /\ \E txt \in ConcTexts :
          requests' = [requests EXCEPT ![r] = [@ EXCEPT !.pc = "split", !.text = txt]]
    /\ UNCHANGED <<settings, store, pc, image_base64, text, input_type, items_in,
                   image_size, idx, classification_results, itemlog, stage,
                   response, endpoint>>

\* lines 92-111: split_items returns; on to the first label call
ConcSplit(r) ==
    /\ requests[r].pc = "split"
    /\ \E resp \in ConcSplitResponses, expResp1 \in ConcSplitResponses,
          expResp2 \in ConcSplitResponses :
          LET req == requests[r]
              item_descriptions == split_items(req.text, resp, expResp1, expResp2)
              items == IF item_descriptions.items = <<>> THEN <<req.text>>
                       ELSE item_descriptions.items
              split == [req EXCEPT !.items = items]
          IN  \E k \in 1..(Len(items) + 1) :
                 /\ CanAdvance(split, 1, k)
                 /\ requests' = [requests EXCEPT ![r] = ConcAdvance(split, 1, k, store)]
    /\ UNCHANGED <<settings, store, pc, image_base64, text, input_type, items_in,
                   image_size, idx, classification_results, itemlog, stage,
                   response, endpoint>>

\* the duplicate check reads the store as it was when the label call was issued
StoreAtLabelCall(req) == req.seen

\* _auto_enrich_if_qualified is a plain function called without await: its
\* duplicate check reads the store in the step that makes the add
StoreAtCheck(req) == store

\* lines 111-133: classify_item returns; result, append, enrichment, and on
\* to the next label call
ConcLabel(r) ==
    /\ requests[r].pc = "label"
    /\ \E labelResp \in ConcLabelResponses :
       \E ext \in IF labelResp.kind = "dict" THEN EnrichExt ELSE {AllOK} :
          LET req == requests[r]
              item_text == req.items[req.idx]
              examples == retrieve_similar(req.seen, generate_text_embedding(item_text))
              label == classify_item(FALSE, item_text, examples, labelResp)
              result == BuildResult(label.d, NoConfidence, NoGeometry, NoGeometry)
              built == ~label.raised /\ label.isdict /\ ~ValidationFails(result)
              enrich == IF built
                        THEN _auto_enrich_if_qualified(result, item_text, settings,
                                                       StoreAtCheck(req), ext)
                        ELSE NotCalled(store)
              added == enrich.outcome = "added"
              after == IF added
                       THEN add_example(store, RAGExample(result, EnrichText(result, item_text)))
                       ELSE store
              checked == /\ HasAttr(settings, "AUTO_ENRICH_CHECK_DUPLICATES")
                         /\ settings.AUTO_ENRICH_CHECK_DUPLICATES
                         /\ ext.dupEmbedOK /\ ext.dupQueryOK
              done == [req EXCEPT
                          !.results = IF built THEN Append(@, result) ELSE @,
                          !.adds = IF added
                                   THEN Append(@, [text |-> EnrichText(result, item_text),
                                                   checked |-> checked])
                                   ELSE @]
          IN  /\ store' = after
              /\ \E k \in (req.idx + 1)..(Len(req.items) + 1) :
                    /\ CanAdvance(done, req.idx + 1, k)
                    /\ requests' = [requests EXCEPT
                                       ![r] = ConcAdvance(done, req.idx + 1, k, after)]
    /\ UNCHANGED <<settings, pc, image_base64, text, input_type, items_in,
                   image_size, idx, classification_results, itemlog, stage,
                   response, endpoint>>

ConcNext == \E r \in Requests : ConcCall(r) \/ ConcSplit(r) \/ ConcLabel(r)

ConcSpec == Init /\ [][ConcNext]_vars


(***************************************************************************)
(* Properties.                                                             *)
(***************************************************************************)
ExactlyOneSupplied == image_base64.present # Truthy(text)

Returned == pc = "done"

Produced(i) == itemlog[i].failed = "none"

\* C1: for a call with exactly one of image/text, whatever the external calls
\* do, the response has a non-empty items list, total_items equal to its
\* length, and input_type "image" if an image was supplied, else "text".
C1_ResponseShape ==
    (Returned /\ ExactlyOneSupplied) =>
        /\ Len(response.items) >= 1
        /\ response.total_items = Len(response.items)
        /\ response.input_type = IF image_base64.present THEN "image" ELSE "text"

C1_Witness ==
    /\ Returned
    /\ image_base64.present
    /\ Len(itemlog) = 2
    /\ \A i \in 1..2 : ~Produced(i)
    /\ response.total_items = 1

\* C2: classify_multiple never propagates an exception when exactly one of
\* image/text is supplied, whatever fails among the external calls.
C2_NeverRaises == pc = "raised" => ~ExactlyOneSupplied

C2_Witness ==
    /\ Returned
    /\ stage.failed
    /\ Len(itemlog) = 2
    /\ itemlog[1].failed = "label"
    /\ itemlog[2].enrich = "raised"

\* C3: a per-item failure omits only that item: every upstream phrase or
\* detection is attempted, and each one whose own steps all succeed has its
\* classification in the returned list.
C3_Isolation ==
    Returned =>
        /\ Len(itemlog) = Len(items_in)
        /\ \A i \in 1..Len(itemlog) :
              Produced(i) =>
                  \E k \in 1..Len(response.items) :
                      response.items[k] = [result |-> itemlog[i].result, src |-> i]

C3_Witness ==
    /\ Returned
    /\ Len(itemlog) = 2
    /\ itemlog[1].failed = "query"
    /\ Produced(2)
    /\ Len(response.items) = 1
    /\ response.items[1].src = 2

\* C4: the returned classifications are in the order of the phrases or
\* detections that produced them, at most one per upstream item.
C4_Order ==
    Returned =>
        /\ \A j, k \in 1..Len(response.items) :
              j < k => response.items[j].src < response.items[k].src
        /\ \A k \in 1..Len(response.items) : response.items[k].src \in 0..Len(items_in)

C4_Witness ==
    /\ Returned
    /\ Len(response.items) = 2
    /\ response.items[1].src = 1
    /\ response.items[2].src = 2
    /\ response.items[1].result.item # response.items[2].result.item

\* C5: if no phrase or detection produces a classification the response is
\* exactly one Classification {"Unknown item", "general", "General waste",
\* "other", "No items could be classified."} without confidence, bbox or
\* mask; the default is synthesized only then, never next to a real one.
C5_Default ==
    Returned =>
        /\ (\A i \in 1..Len(itemlog) : ~Produced(i)) =>
              response.items =
                  <<[result |-> [item |-> "Unknown item", category |-> "general",
                                 bin |-> "General waste", binColor |-> "other",
                                 explanation |-> "No items could be classified.",
                                 confidence |-> NoConfidence, bbox |-> NoGeometry,
                                 mask |-> NoGeometry],
                     src |-> 0]>>
        /\ (\E k \in 1..Len(response.items) : response.items[k].src = 0) =>
              /\ Len(response.items) = 1
              /\ \A i \in 1..Len(itemlog) : ~Produced(i)

C5_Witness ==
    /\ Returned
    /\ ~image_base64.present
    /\ Len(items_in) = 2
    /\ response.items[1].src = 0
    /\ itemlog[1].failed = "construction"
    /\ itemlog[2].failed = "embedding"

\* C6 as claimed: if the splitter or the detector stage fails, the response
\* is exactly one Classification whose item is "Unknown item".
C6_Original ==
    (Returned /\ stage.failed) =>
        /\ Len(response.items) = 1
        /\ response.items[1].result.item = "Unknown item"

\* C6 as amended: if the detector stage fails, or the splitter returns no
\* phrase, the request degrades to one generic item (the detection "item in
\* image" without bbox and mask at confidence 0.5, or the whole text) and
\* exactly one Classification is returned: that item's own classification if
\* its steps succeed, else the "Unknown item" default.  A failure of the
\* generative split alone falls back to the deterministic split of the text.
C6_Amended ==
    Returned =>
        /\ (stage.kind = "detect" /\ stage.failed) =>
              /\ items_in = <<[description |-> <<"item", "in", "image">>,
                               bbox_kind |-> "None", bbox |-> <<>>,
                               mask_kind |-> "None", mask |-> <<>>,
                               conf_kind |-> "num", confidence |-> 50]>>
              /\ Len(response.items) = 1
              /\ ~Produced(1) => response.items[1].result.item = "Unknown item"
              /\ Produced(1) => response.items[1].result = itemlog[1].result
        /\ (stage.kind = "split" /\ stage.returned = 0) =>
              /\ items_in = <<text>>
              /\ Len(response.items) = 1
              /\ ~Produced(1) => response.items[1].result.item = "Unknown item"
              /\ Produced(1) => response.items[1].result = itemlog[1].result
        /\ (stage.kind = "split" /\ stage.path = "blank") =>
              response.items[1].result.item = "Unknown item"
        /\ (stage.kind = "split" /\ stage.path = "simple" /\ stage.returned > 0) =>
              items_in = _split_simple(text)

C6_Witness ==
    /\ Returned
    /\ stage.kind = "detect"
    /\ stage.failed
    /\ Produced(1)
    /\ response.items[1].result.item = "Aluminum can"

\* C7 as claimed: the enrichment step never raises to its caller, whatever
\* the classification, the configuration and the outcome of its calls.
C7_EnrichNeverRaises == \A i \in 1..Len(itemlog) : itemlog[i].enrich # "raised"

\* C8: whether the enrichment of an item succeeds, is skipped or fails, the
\* classification produced for the item is returned unchanged at the
\* position it was appended at.
C8_EnrichFrame ==
    Returned =>
        \A i \in 1..Len(itemlog) :
            Produced(i) =>
                /\ itemlog[i].pos \in 1..Len(response.items)
                /\ response.items[itemlog[i].pos] = [result |-> itemlog[i].result, src |-> i]

C8_Witness ==
    /\ Returned
    /\ Len(response.items) = 2
    /\ itemlog[1].enrich = "added"
    /\ itemlog[2].enrich = "failed"

Qualifies(i) == itemlog[i].enrich \in {"duplicate", "failed", "added"}

FourConditions(r) ==
    /\ HasAttr(settings, "AUTO_ENRICH_ENABLED") /\ settings.AUTO_ENRICH_ENABLED
    /\ \/ r.confidence.kind = "None"
       \/ /\ HasAttr(settings, "AUTO_ENRICH_CONFIDENCE_THRESHOLD")
          /\ r.confidence.v >= settings.AUTO_ENRICH_CONFIDENCE_THRESHOLD
    /\ r.item \notin {"unknown item", "item in image", "general waste"}
    /\ ~(r.category = "general" /\ r.binColor = "other")

AluminumCan(r) == r.item = "Aluminum can" /\ r.category = "metal" /\ r.binColor = "yellow"

\* C9 as claimed: an exemplar is added only if the enabled flag is true, the
\* confidence is absent or at least the threshold, the item is no reserved
\* placeholder and not (category "general" and binColor "other"); with the
\* settings as shipped {0.99, "Aluminum can", "metal", "yellow"} qualifies
\* and the same classification at confidence 0.3 does not.
C9_Original ==
    \A i \in 1..Len(itemlog) :
        /\ itemlog[i].added => FourConditions(itemlog[i].result)
        /\ (settings = Settings /\ Produced(i) /\ AluminumCan(itemlog[i].result)) =>
              /\ itemlog[i].result.confidence = [kind |-> "num", v |-> 99] => Qualifies(i)
              /\ itemlog[i].result.confidence = [kind |-> "num", v |-> 30] => ~Qualifies(i)

C11_DuplicateAfterAdd ==
    /\ \A k \in 1..Len(store) :
          check_duplicate(store, store[k].text_description, 90, TRUE, TRUE)
    /\ \A i \in 1..Len(itemlog) : \A j \in 1..Len(itemlog) :
          (/\ i < j
           /\ itemlog[i].added
           /\ itemlog[j].queried
           /\ itemlog[j].result.item = itemlog[i].result.item
           /\ itemlog[j].description = itemlog[i].description)
          => (itemlog[j].enrich = "duplicate" /\ ~itemlog[j].added)

C11_Witness ==
    /\ Len(itemlog) = 2
    /\ itemlog[1].added
    /\ itemlog[2].queried
    /\ itemlog[2].result.item = itemlog[1].result.item
    /\ itemlog[2].description = itemlog[1].description
    /\ itemlog[2].distances[1] = 0
    /\ itemlog[2].enrich = "duplicate"
    /\ Len(store) = 1

\* C12 as claimed: split_items returns at least one phrase for every text
\* that is not blank, whether the generative split succeeds or fails and
\* whatever the deterministic split strips from the text.
C12_SplitNonEmpty ==
    (stage.kind = "split" /\ Truthy(text) /\ Strip(text) # <<>>) => stage.returned >= 1

\* the parsed array was normalized entry by entry: items_in[i] is the
\* canonical detection of stage.raw[i]
Normalized ==
    /\ stage.kind = "detect"
    /\ stage.path = "array"
    /\ ~stage.raised
    /\ stage.raw # <<>>

\* C13 as claimed: the detector stage's output is never empty, and every
\* canonical detection's confidence is a number in [0,1], 0.5 when the raw
\* entry's confidence is missing or not a number.
C13_Original ==
    stage.kind = "detect" =>
        /\ items_in # <<>>
        /\ \A i \in 1..Len(items_in) :
              /\ items_in[i].conf_kind = "num"
              /\ items_in[i].confidence \in 0..100
        /\ Normalized =>
              /\ Len(items_in) = Len(stage.raw)
              /\ \A i \in 1..Len(items_in) :
                    stage.raw[i].conf_kind # "num" =>
                        (items_in[i].conf_kind = "num" /\ items_in[i].confidence = 50)

\* a mask as the claims describe it: a list of at least 3 coordinate pairs
WellFormedMask(d) ==
    /\ d.mask_kind = "list"
    /\ Len(d.mask) >= 3
    /\ \A k \in 1..Len(d.mask) : Len(d.mask[k]) = 2

\* C14 as claimed: after normalization a detection's bbox is absent or a
\* list of exactly 4 finite numbers, and its mask is absent or a list of at least 3
\* coordinate pairs.
C14_Original ==
    stage.kind = "detect" =>
        \A i \in 1..Len(items_in) :
            /\ \/ items_in[i].bbox_kind = "None"
               \/ /\ items_in[i].bbox_kind = "list"
                  /\ Len(items_in[i].bbox) = 4
                  /\ Finite(items_in[i].bbox)
            /\ \/ items_in[i].mask_kind = "None"
               \/ WellFormedMask(items_in[i])

\* the bbox of d is the axis-aligned rectangle [x, y, width, height] over the
\* extrema of the points pts
BoundsOf(d, pts) ==
    /\ d.bbox_kind = "list"
    /\ Len(d.bbox) = 4
    /\ \A k \in 1..Len(pts) :
          /\ d.bbox[1] <= pts[k][1] /\ pts[k][1] <= d.bbox[1] + d.bbox[3]
          /\ d.bbox[2] <= pts[k][2] /\ pts[k][2] <= d.bbox[2] + d.bbox[4]
    /\ \E k \in 1..Len(pts) : pts[k][1] = d.bbox[1]
    /\ \E k \in 1..Len(pts) : pts[k][2] = d.bbox[2]
    /\ \E k \in 1..Len(pts) : pts[k][1] = d.bbox[1] + d.bbox[3]
    /\ \E k \in 1..Len(pts) : pts[k][2] = d.bbox[2] + d.bbox[4]

\* C15: a raw detection with a mask and no bbox gets the bbox [minX, minY,
\* maxX - minX, maxY - minY] over the mask's points: its corner is the least
\* x and y, its extent reaches the greatest x and y; the mask (10,10),
\* (90,10), (90,90), (10,90) gives [10,10,80,80].
C15_BBoxFromMask ==
    Normalized =>
        \A i \in 1..Len(stage.raw) :
            (/\ stage.raw[i].mask_kind = "list"
             /\ MaskPairs(stage.raw[i].mask) # <<>>
             /\ ~GeomTruthy(stage.raw[i].bbox_kind, stage.raw[i].bbox))
            => /\ BoundsOf(items_in[i], MaskPairs(stage.raw[i].mask))
               /\ stage.raw[i].mask = <<<<10, 10>>, <<90, 10>>, <<90, 90>>, <<10, 90>>>>
                     => items_in[i].bbox = <<10, 10, 80, 80>>

C15_Witness ==
    /\ Normalized
    /\ Len(stage.raw) = 2
    /\ stage.raw[2].bbox_kind = "MISSING"
    /\ stage.raw[2].mask = <<<<10, 10>>, <<90, 10>>, <<90, 90>>, <<10, 90>>>>
    /\ items_in[2].bbox = <<10, 10, 80, 80>>

\* C16 as claimed: after normalization every detection that keeps a mask
\* also has a bbox; a raw detection whose explicit bbox is dropped as invalid
\* and whose mask is valid ends with the bbox synthesized from the mask.
C16_Original ==
    stage.kind = "detect" =>
        /\ \A i \in 1..Len(items_in) :
              GeomTruthy(items_in[i].mask_kind, items_in[i].mask)
                  => GeomTruthy(items_in[i].bbox_kind, items_in[i].bbox)
        /\ Normalized =>
              \A i \in 1..Len(stage.raw) :
                  (/\ WellFormedMask(stage.raw[i])
                   /\ GeomTruthy(stage.raw[i].bbox_kind, stage.raw[i].bbox)
                   /\ (stage.raw[i].bbox_kind # "list" \/ Len(stage.raw[i].bbox) # 4))
                  => BoundsOf(items_in[i], stage.raw[i].mask)

\* C17 as claimed: parsing and normalizing the detector's output never
\* raises, whatever the entries of the parsed array and the types of their
\* bbox, mask and confidence.
C17_Original == stage.kind = "detect" => ~stage.raised

\* C18 as claimed: the crop rectangle has x >= 0, y >= 0, width >= 1,
\* height >= 1, x + width <= image width and y + height <= image height for
\* every bbox; on a 400x200 image the bbox [25,25,50,50] is cropped to
\* (100,50)-(300,150).
C18_Original ==
    \A i \in 1..Len(itemlog) :
        itemlog[i].crop.ok =>
            LET c == itemlog[i].crop
            IN  /\ c.x >= 0 /\ c.y >= 0 /\ c.width >= 1 /\ c.height >= 1
                /\ c.x + c.width <= image_base64.w
                /\ c.y + c.height <= image_base64.h
                /\ (items_in[i].bbox = <<25, 25, 50, 50>>
                       /\ image_base64.w = 400 /\ image_base64.h = 200)
                   => (/\ c.x = 100 /\ c.y = 50
                       /\ c.x + c.width = 300 /\ c.y + c.height = 150)

\* crop_image was called for detection i
CropCalled(i) ==
    /\ input_type = "image"
    /\ i <= Len(items_in)
    /\ GeomTruthy(items_in[i].bbox_kind, items_in[i].bbox)

\* C19 as claimed: crop_image returns None whenever decoding the image,
\* converting the coordinates or rasterizing the mask fails; a failed mask
\* step yields None, not a crop.
C19_Original ==
    \A i \in 1..Len(itemlog) :
        (/\ CropCalled(i)
         /\ \/ ~image_base64.decodable
            \/ ~Finite(items_in[i].bbox)
            \/ itemlog[i].steps.raster = "failed")
        => ~itemlog[i].crop.ok

\* C19 as amended: crop_image returns None when the image does not decode,
\* the bbox has a component that does not convert, or cropping and encoding
\* fail; a failure of the mask step alone does not end the crop: the plain
\* crop of the bbox is returned, without the mask.
C19_Amended ==
    \A i \in 1..Len(itemlog) :
        CropCalled(i) =>
            /\ (\/ ~image_base64.decodable
                \/ ~Finite(items_in[i].bbox)
                \/ Len(items_in[i].bbox) # 4
                \/ ~itemlog[i].steps.encodeOK) => ~itemlog[i].crop.ok
            /\ (CropDecodes(image_base64, items_in[i]) /\ itemlog[i].steps.encodeOK) =>
                  /\ itemlog[i].crop.ok
                  /\ itemlog[i].crop.masked <=> (itemlog[i].steps.raster = "ok")

C19_Witness ==
    /\ Len(itemlog) = 2
    /\ CropCalled(2)
    /\ itemlog[2].steps.raster = "failed"
    /\ itemlog[2].crop.ok
    /\ ~itemlog[2].crop.masked
    /\ itemlog[2].crop.x = 40

\* C20 as claimed: every returned Classification has item, category, bin,
\* binColor and explanation present, not null and not empty, whatever the
\* label generator returned.
C20_Original ==
    Returned =>
        \A k \in 1..Len(response.items) :
            LET r == response.items[k].result
            IN  {r.item, r.category, r.bin, r.binColor, r.explanation}
                    \cap {None, MISSING, ""} = {}

\* C21 as claimed: when the label generator's response cannot be parsed and
\* the store returned no exemplar, classify_item raises and the item is
\* omitted from the result, not returned with default fields.
C21_Original ==
    \A i \in 1..Len(itemlog) :
        (itemlog[i].label \in {"empty", "prose"} /\ itemlog[i].examples = 0)
        => (itemlog[i].failed = "label" /\ itemlog[i].pos = 0)

\* C22 as claimed: the endpoint calls classify_multiple only for a request
\* with exactly one non-blank input that passes the content filter; a
\* request with both inputs, with neither, or rejected by the filter is
\* answered 400, and nothing is split, detected, labelled or stored for it.
C22_Original ==
    /\ endpoint.status \in {"pending", "200"} =>
          (endpoint.has_image # endpoint.has_text /\ endpoint.valid)
    /\ (endpoint.status # "none"
          /\ (endpoint.has_image = endpoint.has_text \/ ~endpoint.valid)) =>
          /\ endpoint.status = "400"
          /\ stage = NoStage
          /\ itemlog = <<>>

\* C23 as claimed: the generative split's phrases are returned when it gives
\* at least 2; when it gives exactly 1, the expansion's phrases if those are
\* at least 2, else the single phrase; the deterministic split is used only
\* when the generative split gives nothing, and returns the original trimmed
\* text as a singleton when it finds at most 1 piece.
C23_Original ==
    (stage.kind = "split" /\ stage.path # "blank") =>
        /\ stage.generated >= 2 => (stage.path = "llm" /\ stage.returned = stage.generated)
        /\ stage.generated = 1 =>
              \/ (stage.path = "expansion" /\ stage.returned >= 2)
              \/ (stage.path = "llm" /\ stage.returned = 1)
        /\ stage.path = "simple" =>
              /\ stage.generated = 0
              /\ \/ stage.returned >= 2
                 \/ (stage.returned = 1 /\ items_in = <<Strip(text)>>)


\* C24 as claimed: within one request no external call is repeated: during one
\* split the generative split call is issued at most once and the expansion
\* call at most once.
C24_Original ==
    stage.kind = "split" => (stage.splitCalls <= 1 /\ stage.expandCalls <= 1)


\* C25 as claimed: a bracketed array or whole-response array that is empty or
\* structurally invalid does not stop the chain: the detections are then
\* those of the line heuristic.
C25_Original ==
    (/\ stage.kind = "detect"
     /\ stage.path = "array"
     /\ stage.raw = <<>> \/ stage.raised
     /\ stage.lines # <<>>)
    => items_in = stage.lines


\* C26: for each detection of the image path, the crop is requested exactly
\* when the detection has a bbox, and only a detection with a mask has it
\* applied; the label generator gets the crop and no text when there is a
\* crop, otherwise the original image and the detection's description; the
\* Classification built carries the detection's confidence, bbox and mask.
C26_ImageLoop ==
    \A i \in 1..Len(itemlog) :
        input_type = "image" =>
            LET d == items_in[i]
                L == itemlog[i]
                hasBBox == GeomTruthy(d.bbox_kind, d.bbox)
                hasMask == GeomTruthy(d.mask_kind, d.mask)
            IN  /\ ~hasBBox => (~L.crop.ok /\ L.steps = NoCropSteps)
                /\ L.crop.ok => hasBBox
                /\ (L.crop.masked \/ L.steps.raster # "none") => hasMask
                /\ L.label # "not_called" =>
                      IF L.crop.ok
                      THEN L.labelImage = "crop" /\ L.labelText = NoneText
                      ELSE L.labelImage = "original" /\ L.labelText = d.description
                /\ L.failed = "none" =>
                      /\ L.result.confidence = [kind |-> d.conf_kind, v |-> d.confidence]
                      /\ L.result.bbox = IF hasBBox
                                          THEN [kind |-> "dict", coordinates |-> d.bbox]
                                          ELSE NoGeometry
                      /\ L.result.mask = IF hasMask
                                          THEN [kind |-> "dict", coordinates |-> d.mask]
                                          ELSE NoGeometry

\* two detections classified: one from its crop with no text, one whose
\* crop failed from the original image and its description
C26_Witness ==
    /\ input_type = "image"
    /\ Len(itemlog) = 2
    /\ itemlog[1].crop.ok /\ itemlog[1].labelImage = "crop"
    /\ itemlog[1].labelText = NoneText /\ itemlog[1].failed = "none"
    /\ itemlog[1].result.bbox.coordinates = <<25, 25, 50, 50>>
    /\ ~itemlog[2].crop.ok /\ itemlog[2].labelImage = "original"
    /\ itemlog[2].labelText = <<"bottle">> /\ itemlog[2].failed = "none"
    /\ itemlog[2].result.confidence.v = 30
    /\ itemlog[2].result.mask.kind = "dict"


\* C27: during classify_multiple the store only grows by appends, one at
\* most per step; an exemplar is added only in the step that appends the
\* classification it is made from to the result, so never for an item that
\* failed and never for the default classification that is synthesized at
\* the end; no exemplar is changed or removed.
C27_StoreAppendOnly ==
    [][/\ \/ store' = store
          \/ /\ Len(store') = Len(store) + 1
             /\ SubSeq(store', 1, Len(store)) = store
       /\ store' # store =>
             LET L == itemlog'[Len(itemlog')]
             IN  /\ Len(itemlog') = Len(itemlog) + 1
                 /\ L.failed = "none"
                 /\ L.added
                 /\ classification_results' =
                       Append(classification_results, [result |-> L.result, src |-> idx])
                 /\ store'[Len(store')].item_name = L.result.item
                 /\ L.result # DefaultClassification
       /\ pc' = "done" => store' = store]_vars

\* a request whose first item failed and whose second item was added to the
\* seeded store, after which the response was built
C27_Witness ==
    /\ pc = "done"
    /\ Len(itemlog) = 2
    /\ itemlog[1].failed # "none" /\ ~itemlog[1].added
    /\ itemlog[2].failed = "none" /\ itemlog[2].added
    /\ Len(store) = 2 /\ store[1] = SeedExample
    /\ Len(classification_results) = 1


\* C29: a duplicate check whose embedding or store query fails reports "not
\* a duplicate": the enrichment never ends as a duplicate then, and adds the
\* exemplar unless its own embedding or the add fails.
C29_FailedCheckAdds ==
    \A i \in 1..Len(itemlog) :
        itemlog[i].checkFailed =>
            /\ itemlog[i].enrich \in {"added", "failed"}
            /\ itemlog[i].enrich = "added" <=> itemlog[i].added
            /\ itemlog[i].enrich = "failed" => itemlog[i].addFailed

\* the second item repeats the first, which was added; its duplicate
\* check fails at its embedding or query and the same exemplar is added again
C29_Witness ==
    /\ Len(itemlog) = 2
    /\ itemlog[1].added
    /\ itemlog[2].checkFailed
    /\ itemlog[2].result.item = itemlog[1].result.item
    /\ itemlog[2].description = itemlog[1].description
    /\ itemlog[2].added
    /\ store[Len(store)] = store[Len(store) - 1]


\* C30 as claimed: every phrase of the list split_items returns is non-empty
\* after trimming, whichever path produced the list.
C30_Original ==
    (stage.kind = "split" /\ stage.returned > 0) =>
        \A i \in 1..Len(items_in) : Truthy(items_in[i]) /\ Strip(items_in[i]) # <<>>


\* duplicate checking is enabled
ChecksDuplicates ==
    HasAttr(settings, "AUTO_ENRICH_CHECK_DUPLICATES") /\ settings.AUTO_ENRICH_CHECK_DUPLICATES

\* the two requests both added an exemplar with the same text
SameTextAdded(i, j) ==
    /\ i \in 1..Len(requests[1].adds)
    /\ j \in 1..Len(requests[2].adds)
    /\ requests[1].adds[i].text = requests[2].adds[j].text

\* C28 as claimed: with duplicate checking enabled, two concurrent requests
\* never both add an exemplar with the same text.
C28_Original ==
    ChecksDuplicates => \A i \in 1..2 : \A j \in 1..2 : ~SameTextAdded(i, j)

\* C28 as amended: the duplicate check and the add of one request run in one
\* step, so two concurrent requests both add an exemplar with the same text
\* only when the duplicate check of one of them failed at its embedding or
\* its query, or when no check was made.
C28_Amended ==
    \A i \in 1..2 : \A j \in 1..2 :
        SameTextAdded(i, j) =>
            (~requests[1].adds[i].checked \/ ~requests[2].adds[j].checked)

\* request 2 issued its label call on an empty store, request 1 then added
\* its exemplar, and request 2, with the same classification of the same
\* phrase, found the duplicate and added nothing
C28_Witness ==
    /\ ChecksDuplicates
    /\ requests[1].pc = "done" /\ requests[2].pc = "done"
    /\ Len(requests[1].adds) = 1 /\ requests[1].adds[1].checked
    /\ requests[2].adds = <<>>
    /\ requests[2].seen = <<>>
    /\ requests[2].items = requests[1].items
    /\ requests[2].results = requests[1].results
    /\ Len(requests[1].items) = 1
    /\ store = <<RAGExample(requests[1].results[1],
                            EnrichText(requests[1].results[1], requests[1].items[1]))>>

=============================================================================
